---- MODULE Spec2Model ----
(***************************************************************************)
(* learn_runner.run: make an Experiment with a caller-supplied builder and *)
(* call the method of it that `schedule` names.  One call of run is        *)
(* modelled statement by statement; pc is the source line about to run.    *)
(*                                                                         *)
(* Python values are records tagged by `kind`.  Strings that the code      *)
(* inspects (output_dir, schedule, attribute names) are sequences of       *)
(* one-character strings, so that emptiness and startswith are computed.   *)
(***************************************************************************)
EXTENDS Naturals, Sequences, FiniteSets

VARIABLES
    pc,             \* source line of run about to execute, or "raised" / "returned"
    experiment_fn,  \* argument: the builder
    output_dir,     \* argument
    schedule,       \* argument
    experiment,     \* local: what the builder returned
    task,           \* local: getattr(experiment, schedule)
    valid_tasks,    \* local: result of _valid_tasks
    log,            \* lines handed to logging.error, in order
    calls,          \* everything run invoked or looked up, in order
    raised,         \* the exception that left run, if any
    result          \* the value run returned, if any

vars == <<pc, experiment_fn, output_dir, schedule, experiment, task,
          valid_tasks, log, calls, raised, result>>

----------------------------------------------------------------------------
(* Bounds of the model. *)

\* An object carries at most this many of the attribute names of AllNames.
MaxAttrs == 3

----------------------------------------------------------------------------
(* Strings *)

EmptyStr == << >>
SomeOutputDir == <<"o", "u", "t">>

NamePrivate   == <<"_", "p", "r", "i", "v", "a", "t", "e">>
NameEstimator == <<"e", "s", "t", "i", "m", "a", "t", "o", "r">>
NameEvaluate  == <<"e", "v", "a", "l", "u", "a", "t", "e">>
NameTrain     == <<"t", "r", "a", "i", "n">>

\* The attribute names of the model, in the order dir() lists them
\* (sorted; "_" sorts before the lower-case letters).
AllNames == <<NamePrivate, NameEstimator, NameEvaluate, NameTrain>>

NameSet == {AllNames[i] : i \in 1..Len(AllNames)}

\* `not s` for a string s is true exactly of the empty string.
Truthy(s) == Len(s) > 0

\* s.startswith(prefix)
StartsWith(s, prefix) ==
    /\ Len(s) >= Len(prefix)
    /\ SubSeq(s, 1, Len(prefix)) = prefix

----------------------------------------------------------------------------
(* Python values *)

None    == [kind |-> "NoneType"]
Unbound == [kind |-> "unbound"]      \* a local not yet assigned

\* Values a method of the experiment may return.
ReturnValues == {[kind |-> "str", s |-> "trained"], [kind |-> "str", s |-> "x"]}

\* An attribute is a bound method (callable) or plain data (not callable).
Method(r) == [kind |-> "method", returns |-> r]
Data      == [kind |-> "int", v |-> 7]
AttrValues == {Method(r) : r \in ReturnValues} \cup {Data}

\* callable(v)
Callable(v) == v.kind \in {"function", "method"}

\* Classes and their bases.  SubExperiment derives from Experiment.
Bases(cls) ==
    CASE cls = "Experiment"    -> {"Experiment", "object"}
      [] cls = "SubExperiment" -> {"SubExperiment", "Experiment", "object"}
      [] OTHER                 -> {cls, "object"}

\* type(v)
TypeOf(v) == IF v.kind = "object" THEN v.type ELSE v.kind

\* isinstance(v, cls)
IsInstance(v, cls) == cls \in Bases(TypeOf(v))

AttrTables ==
    UNION {[names -> AttrValues] :
             names \in {S \in SUBSET NameSet : Cardinality(S) <= MaxAttrs}}

Objects ==
    {[kind |-> "object", type |-> t, attrs |-> a] :
        t \in {"Experiment", "SubExperiment", "Duck"}, a \in AttrTables}

\* hasattr(obj, name)
HasAttr(obj, name) == obj.kind = "object" /\ name \in DOMAIN obj.attrs

\* getattr(obj, name), defined when hasattr(obj, name)
GetAttr(obj, name) == obj.attrs[name]

\* dir(obj): the attribute names, sorted
Dir(obj) == SelectSeq(AllNames, LAMBDA x : HasAttr(obj, x))

\* What builders return: an object or None.
BuilderResults == Objects \cup {None}

Function(r) == [kind |-> "function", returns |-> r]

\* Things passed as experiment_fn: functions, and values that are not callable.
EmptyTuple == [kind |-> "tuple", items |-> << >>]
PairTuple  == [kind |-> "tuple", items |-> <<"a", "b">>]
NotCallables == {None, [kind |-> "str", s |-> "builder"], EmptyTuple, PairTuple}
Builders == {Function(r) : r \in BuilderResults} \cup NotCallables

----------------------------------------------------------------------------
(* Exceptions and log lines: a format string with its arguments *)

NoException == [kind |-> "none"]
NoResult    == [kind |-> "none"]

Exception(cls, fmt, arg) == [kind |-> cls, fmt |-> fmt, arg |-> arg]

\* fmt % arg, for a format string with one %s.  A tuple on the right is
\* unpacked, so it must have exactly one item; otherwise % itself raises
\* TypeError.
Percent(fmt, arg) ==
    IF arg.kind = "tuple" /\ Len(arg.items) = 0
    THEN [ok |-> FALSE, fmt |-> "not enough arguments for format string", arg |-> None]
    ELSE IF arg.kind = "tuple" /\ Len(arg.items) > 1
    THEN [ok |-> FALSE,
          fmt |-> "not all arguments converted during string formatting", arg |-> None]
    ELSE [ok |-> TRUE, fmt |-> fmt, arg |-> arg]

Str(s) == [kind |-> "str", s |-> s]

LogLine(fmt, arg) == [level |-> "error", fmt |-> fmt, arg |-> arg]

----------------------------------------------------------------------------
(* _valid_tasks *)

\* Variant: the filter on the leading underscore is missing.
_valid_tasks_WithPrivate(e) ==
    SelectSeq(Dir(e), LAMBDA x : Callable(GetAttr(e, x)))

\* Variant: the filter on callable is missing.
_valid_tasks_WithNonCallable(e) ==
    SelectSeq(Dir(e), LAMBDA x : ~StartsWith(x, <<"_">>))

_valid_tasks(e) ==
    SelectSeq(Dir(e), LAMBDA x : Callable(GetAttr(e, x)) /\ ~StartsWith(x, <<"_">>))

\* The getattr calls _valid_tasks makes: one per name of dir().
ValidTasksLookups(e) ==
    [i \in 1..Len(Dir(e)) |-> [op |-> "getattr", name |-> Dir(e)[i]]]

----------------------------------------------------------------------------
(* run *)

Init ==
    /\ pc = "L60"
    /\ experiment_fn \in Builders
    /\ output_dir \in {EmptyStr, SomeOutputDir}
    /\ schedule \in NameSet \cup {EmptyStr}
    /\ experiment = Unbound
    /\ task = Unbound
    /\ valid_tasks = << >>
    /\ log = << >>
    /\ calls = << >>
    /\ raised = NoException
    /\ result = NoResult

Raise(exc) ==
    /\ raised' = exc
    /\ pc' = "raised"

\* if not output_dir: raise ValueError(...)
CheckOutputDir ==
    /\ pc = "L60"
    /\ IF ~Truthy(output_dir)
       THEN Raise(Exception("ValueError", "Must specify an output directory", None))
       ELSE pc' = "L62" /\ UNCHANGED raised
    /\ UNCHANGED <<experiment_fn, output_dir, schedule, experiment, task,
                   valid_tasks, log, calls, result>>

\* Variant: the schedule is not checked for emptiness.
CheckSchedule_NotChecked ==
    /\ pc = "L62"
    /\ pc' = "L64"
    /\ UNCHANGED <<experiment_fn, output_dir, schedule, experiment, task,
                   valid_tasks, log, calls, raised, result>>

\* if not schedule: raise ValueError(...)
CheckSchedule ==
    /\ pc = "L62"
    /\ IF ~Truthy(schedule)
       THEN Raise(Exception("ValueError", "Must specify a schedule", None))
       ELSE pc' = "L64" /\ UNCHANGED raised
    /\ UNCHANGED <<experiment_fn, output_dir, schedule, experiment, task,
                   valid_tasks, log, calls, result>>

\* Variant: the wrong exception class is raised for a builder that is not callable.
CheckBuilderCallable_ValueError ==
    /\ pc = "L64"
    /\ IF ~Callable(experiment_fn)
       THEN Raise(Exception("ValueError", "Experiment builder \"%s\" is not callable.",
                            experiment_fn))
       ELSE pc' = "L69" /\ UNCHANGED raised
    /\ UNCHANGED <<experiment_fn, output_dir, schedule, experiment, task,
                   valid_tasks, log, calls, result>>

\* if not callable(experiment_fn): raise TypeError(... % experiment_fn)
CheckBuilderCallable ==
    /\ pc = "L64"
    /\ IF ~Callable(experiment_fn)
       THEN LET m == Percent("Experiment builder \"%s\" is not callable.", experiment_fn)
            IN  Raise(Exception("TypeError", m.fmt, m.arg))
       ELSE pc' = "L69" /\ UNCHANGED raised
    /\ UNCHANGED <<experiment_fn, output_dir, schedule, experiment, task,
                   valid_tasks, log, calls, result>>

\* Variant: the builder is called a second time.
CallBuilder_Twice ==
    /\ pc = "L69"
    /\ experiment' = experiment_fn.returns
    /\ calls' = calls \o <<[op |-> "experiment_fn", name |-> output_dir],
                           [op |-> "experiment_fn", name |-> output_dir]>>
    /\ pc' = "L70"
    /\ UNCHANGED <<experiment_fn, output_dir, schedule, task, valid_tasks, log,
                   raised, result>>

\* experiment = experiment_fn(output_dir=output_dir)
CallBuilder ==
    /\ pc = "L69"
    /\ experiment' = experiment_fn.returns
    /\ calls' = Append(calls, [op |-> "experiment_fn", name |-> output_dir])
    /\ pc' = "L70"
    /\ UNCHANGED <<experiment_fn, output_dir, schedule, task, valid_tasks, log,
                   raised, result>>

\* Variant: the class of what the builder returned is not checked.
CheckIsExperiment_NotChecked ==
    /\ pc = "L70"
    /\ pc' = "L75"
    /\ UNCHANGED <<experiment_fn, output_dir, schedule, experiment, task,
                   valid_tasks, log, calls, raised, result>>

\* if not isinstance(experiment, Experiment): raise TypeError(... % type(experiment))
CheckIsExperiment ==
    /\ pc = "L70"
    /\ IF ~IsInstance(experiment, "Experiment")
       THEN Raise(Exception("TypeError",
                    "Experiment builder did not return an Experiment instance, got %s instead.",
                    [kind |-> "type", name |-> TypeOf(experiment)]))
       ELSE pc' = "L75" /\ UNCHANGED raised
    /\ UNCHANGED <<experiment_fn, output_dir, schedule, experiment, task,
                   valid_tasks, log, calls, result>>

\* if not hasattr(experiment, schedule):
CheckHasAttr ==
    /\ pc = "L75"
    /\ calls' = Append(calls, [op |-> "hasattr", name |-> schedule])
    /\ pc' = IF ~HasAttr(experiment, schedule) THEN "L76" ELSE "L81"
    /\ UNCHANGED <<experiment_fn, output_dir, schedule, experiment, task,
                   valid_tasks, log, raised, result>>

\* logging.error('Schedule references non-existent task %s', schedule)
LogNonExistent ==
    /\ pc = "L76"
    /\ log' = Append(log, LogLine("Schedule references non-existent task %s", Str(schedule)))
    /\ pc' = "L77"
    /\ UNCHANGED <<experiment_fn, output_dir, schedule, experiment, task,
                   valid_tasks, calls, raised, result>>

\* valid_tasks = _valid_tasks(experiment)
ValidTasksNonExistent ==
    /\ pc = "L77"
    /\ valid_tasks' = _valid_tasks(experiment)
    /\ calls' = calls \o ValidTasksLookups(experiment)
    /\ pc' = "L78"
    /\ UNCHANGED <<experiment_fn, output_dir, schedule, experiment, task,
                   log, raised, result>>

\* Variant: the line listing the valid tasks is not logged.
LogAllowedNonExistent_Silent ==
    /\ pc = "L78"
    /\ pc' = "L79"
    /\ UNCHANGED <<experiment_fn, output_dir, schedule, experiment, task,
                   valid_tasks, log, calls, raised, result>>

\* logging.error('Allowed values for this experiment are: %s', valid_tasks)
LogAllowedNonExistent ==
    /\ pc = "L78"
    /\ log' = Append(log, LogLine("Allowed values for this experiment are: %s",
                                  [kind |-> "list", items |-> valid_tasks]))
    /\ pc' = "L79"
    /\ UNCHANGED <<experiment_fn, output_dir, schedule, experiment, task,
                   valid_tasks, calls, raised, result>>

\* raise ValueError('Schedule references non-existent task %s' % schedule)
RaiseNonExistent ==
    /\ pc = "L79"
    /\ Raise(Exception("ValueError", "Schedule references non-existent task %s",
                       Str(schedule)))
    /\ UNCHANGED <<experiment_fn, output_dir, schedule, experiment, task,
                   valid_tasks, log, calls, result>>

\* task = getattr(experiment, schedule)
GetTask ==
    /\ pc = "L81"
    /\ task' = GetAttr(experiment, schedule)
    /\ calls' = Append(calls, [op |-> "getattr", name |-> schedule])
    /\ pc' = "L82"
    /\ UNCHANGED <<experiment_fn, output_dir, schedule, experiment,
                   valid_tasks, log, raised, result>>

\* if not callable(task):
CheckTaskCallable ==
    /\ pc = "L82"
    /\ pc' = IF ~Callable(task) THEN "L83" ELSE "L88"
    /\ UNCHANGED <<experiment_fn, output_dir, schedule, experiment, task,
                   valid_tasks, log, calls, raised, result>>

\* logging.error('Schedule references non-callable member %s', schedule)
LogNonCallable ==
    /\ pc = "L83"
    /\ log' = Append(log, LogLine("Schedule references non-callable member %s", Str(schedule)))
    /\ pc' = "L84"
    /\ UNCHANGED <<experiment_fn, output_dir, schedule, experiment, task,
                   valid_tasks, calls, raised, result>>

\* valid_tasks = _valid_tasks(experiment)
ValidTasksNonCallable ==
    /\ pc = "L84"
    /\ valid_tasks' = _valid_tasks(experiment)
    /\ calls' = calls \o ValidTasksLookups(experiment)
    /\ pc' = "L85"
    /\ UNCHANGED <<experiment_fn, output_dir, schedule, experiment, task,
                   log, raised, result>>

\* logging.error('Allowed values for this experiment are: %s', valid_tasks)
LogAllowedNonCallable ==
    /\ pc = "L85"
    /\ log' = Append(log, LogLine("Allowed values for this experiment are: %s",
                                  [kind |-> "list", items |-> valid_tasks]))
    /\ pc' = "L86"
    /\ UNCHANGED <<experiment_fn, output_dir, schedule, experiment, task,
                   valid_tasks, calls, raised, result>>

\* raise TypeError('Schedule references non-callable member %s' % schedule)
RaiseNonCallable ==
    /\ pc = "L86"
    /\ Raise(Exception("TypeError", "Schedule references non-callable member %s",
                       Str(schedule)))
    /\ UNCHANGED <<experiment_fn, output_dir, schedule, experiment, task,
                   valid_tasks, log, calls, result>>

\* Variant: the member is called and its value dropped.
CallTask_DiscardsResult ==
    /\ pc = "L88"
    /\ calls' = Append(calls, [op |-> "task", name |-> schedule])
    /\ result' = None
    /\ pc' = "returned"
    /\ UNCHANGED <<experiment_fn, output_dir, schedule, experiment, task,
                   valid_tasks, log, raised>>

\* return task()
CallTask ==
    /\ pc = "L88"
    /\ calls' = Append(calls, [op |-> "task", name |-> schedule])
    /\ result' = task.returns
    /\ pc' = "returned"
    /\ UNCHANGED <<experiment_fn, output_dir, schedule, experiment, task,
                   valid_tasks, log, raised>>

Next ==
    \/ CheckOutputDir
    \/ CheckSchedule
    \/ CheckBuilderCallable
    \/ CallBuilder
    \/ CheckIsExperiment
    \/ CheckHasAttr
    \/ LogNonExistent
    \/ ValidTasksNonExistent
    \/ LogAllowedNonExistent
    \/ RaiseNonExistent
    \/ GetTask
    \/ CheckTaskCallable
    \/ LogNonCallable
    \/ ValidTasksNonCallable
    \/ LogAllowedNonCallable
    \/ RaiseNonCallable
    \/ CallTask

Spec == Init /\ [][Next]_vars

----------------------------------------------------------------------------
(* Vocabulary of the properties.  The preconditions are stated on the      *)
(* arguments of the call, not on the path run took.                        *)

Terminated == pc \in {"raised", "returned"}

\* How many entries of calls are the operation op.
CountOp(op) == Cardinality({i \in DOMAIN calls : calls[i].op = op})

BuilderCall == [op |-> "experiment_fn", name |-> output_dir]

\* The arguments pass the first three checks.
ArgsPass ==
    /\ output_dir # EmptyStr
    /\ schedule # EmptyStr
    /\ experiment_fn.kind = "function"

\* ... and the builder returns an Experiment (of the class or a subclass).
ValidHandle ==
    /\ ArgsPass
    /\ experiment_fn.returns.kind = "object"
    /\ experiment_fn.returns.type \in {"Experiment", "SubExperiment"}

Handle == experiment_fn.returns

\* The names of the handle that are callable and do not begin with "_".
PublicCallableNames ==
    {x \in DOMAIN Handle.attrs : Handle.attrs[x].kind = "method" /\ Head(x) # "_"}

SeqToSet(q) == {q[i] : i \in DOMAIN q}

\* The line listing the valid tasks lists exactly the public callable names,
\* each once.
ListsPublicCallables(line) ==
    /\ line.level = "error"
    /\ line.fmt = "Allowed values for this experiment are: %s"
    /\ line.arg.kind = "list"
    /\ SeqToSet(line.arg.items) = PublicCallableNames
    /\ Len(line.arg.items) = Cardinality(PublicCallableNames)

MsgOutputDir   == "Must specify an output directory"
MsgSchedule    == "Must specify a schedule"
MsgNotCallable == "Experiment builder \"%s\" is not callable."
MsgNotExperiment ==
    "Experiment builder did not return an Experiment instance, got %s instead."
MsgNonExistent == "Schedule references non-existent task %s"
MsgNonCallable == "Schedule references non-callable member %s"

----------------------------------------------------------------------------
\* C1: when both strings are non-empty, the builder is callable and returns a
\* valid experiment, and schedule names a callable public member of it, run
\* calls that member once and returns exactly the value the member returned.
C1_ReturnsMemberResult ==
    (/\ Terminated
     /\ ValidHandle
     /\ schedule \in PublicCallableNames)
    => /\ pc = "returned"
       /\ raised = NoException
       /\ result = Handle.attrs[schedule].returns
       /\ CountOp("task") = 1
       /\ calls[Len(calls)] = [op |-> "task", name |-> schedule]

C1_Witness ==
    /\ pc = "returned"
    /\ ValidHandle
    /\ schedule = NameEvaluate
    /\ schedule \in PublicCallableNames
    /\ result = [kind |-> "str", s |-> "x"]

\* C2: when output_dir or schedule is empty, whatever the builder is, run
\* fails with a configuration error (a ValueError carrying one of the two
\* "must specify" messages) and the builder is never called.
C2_EmptyArgumentFailsBeforeBuilder ==
    (output_dir = EmptyStr \/ schedule = EmptyStr)
    => /\ CountOp("experiment_fn") = 0
       /\ experiment = Unbound
       /\ pc # "returned"
       /\ Terminated =>
            /\ raised.kind = "ValueError"
            /\ raised.fmt = (IF output_dir = EmptyStr THEN MsgOutputDir ELSE MsgSchedule)

C2_Witness ==
    /\ pc = "raised"
    /\ output_dir # EmptyStr
    /\ schedule = EmptyStr
    /\ experiment_fn.kind = "str"
    /\ raised.fmt = MsgSchedule

\* C3: with both strings non-empty and a builder that is not callable, run
\* fails with a TypeError and has invoked nothing: no builder call, no
\* attribute lookup, no member call, no log line.
C3_NonCallableBuilderInvokesNothing ==
    (/\ output_dir # EmptyStr
     /\ schedule # EmptyStr
     /\ experiment_fn.kind # "function")
    => /\ calls = << >>
       /\ log = << >>
       /\ experiment = Unbound
       /\ task = Unbound
       /\ pc # "returned"
       /\ Terminated => raised.kind = "TypeError"

C3_Witness ==
    /\ pc = "raised"
    /\ output_dir # EmptyStr
    /\ schedule # EmptyStr
    /\ experiment_fn = None
    /\ raised.fmt = MsgNotCallable
    /\ raised.arg = None

\* C4: when the first three checks pass and the builder returns something
\* that is not an Experiment, run fails with a TypeError naming the type of
\* what was returned, and no member of that object is looked up or called,
\* even if it has a callable attribute named by schedule.
C4_WrongTypeNamesTypeWithoutLookup ==
    (/\ ArgsPass
     /\ ~(/\ experiment_fn.returns.kind = "object"
          /\ experiment_fn.returns.type \in {"Experiment", "SubExperiment"}))
    => /\ CountOp("hasattr") = 0
       /\ CountOp("getattr") = 0
       /\ CountOp("task") = 0
       /\ task = Unbound
       /\ log = << >>
       /\ pc # "returned"
       /\ Terminated =>
            /\ raised.kind = "TypeError"
            /\ raised.fmt = MsgNotExperiment
            /\ raised.arg =
                 [kind |-> "type",
                  name |-> IF experiment_fn.returns.kind = "object"
                           THEN experiment_fn.returns.type
                           ELSE "NoneType"]
            /\ calls = <<BuilderCall>>

C4_Witness ==
    /\ pc = "raised"
    /\ ArgsPass
    /\ experiment_fn.returns.kind = "object"
    /\ experiment_fn.returns.type = "Duck"
    /\ schedule \in DOMAIN experiment_fn.returns.attrs
    /\ experiment_fn.returns.attrs[schedule].kind = "method"
    /\ raised.arg = [kind |-> "type", name |-> "Duck"]

\* C5: with a valid experiment that has no attribute named by schedule, run
\* fails with the lookup error (the ValueError "non-existent task" naming the
\* schedule), and the valid-tasks list it reports holds exactly the names of
\* the experiment that are callable and do not begin with an underscore.
C5_MissingScheduleListsPublicCallables ==
    (/\ Terminated
     /\ ValidHandle
     /\ schedule \notin DOMAIN Handle.attrs)
    => /\ pc = "raised"
       /\ raised = [kind |-> "ValueError", fmt |-> MsgNonExistent,
                    arg |-> [kind |-> "str", s |-> schedule]]
       /\ Len(log) = 2
       /\ ListsPublicCallables(log[2])
       /\ \A x \in SeqToSet(log[2].arg.items) :
             /\ Head(x) # "_"
             /\ Handle.attrs[x].kind = "method"
       /\ CountOp("task") = 0

C5_Witness ==
    /\ pc = "raised"
    /\ ValidHandle
    /\ schedule = NameEvaluate
    /\ DOMAIN Handle.attrs = {NamePrivate, NameEstimator, NameTrain}
    /\ Handle.attrs[NamePrivate].kind = "method"
    /\ Handle.attrs[NameEstimator].kind = "int"
    /\ Handle.attrs[NameTrain].kind = "method"
    /\ log[2].arg.items = <<NameTrain>>

\* C6: with a valid experiment whose attribute named by schedule exists and
\* is not callable, run fails with the TypeError "non-callable member", the
\* valid-tasks line is the listing the missing-schedule path gives (the
\* public callable names), and the attribute is never called.
C6_NonCallableMemberNeverInvoked ==
    (/\ ValidHandle
     /\ schedule \in DOMAIN Handle.attrs
     /\ Handle.attrs[schedule].kind # "method")
    => /\ CountOp("task") = 0
       /\ result = NoResult
       /\ pc # "returned"
       /\ Terminated =>
            /\ raised = [kind |-> "TypeError", fmt |-> MsgNonCallable,
                         arg |-> [kind |-> "str", s |-> schedule]]
            /\ Len(log) = 2
            /\ ListsPublicCallables(log[2])
            /\ schedule \notin SeqToSet(log[2].arg.items)

C6_Witness ==
    /\ pc = "raised"
    /\ ValidHandle
    /\ schedule = NameEstimator
    /\ DOMAIN Handle.attrs = {NameEstimator, NameEvaluate, NameTrain}
    /\ Handle.attrs[NameEstimator].kind = "int"
    /\ Handle.attrs[NameEvaluate].kind = "method"
    /\ Handle.attrs[NameTrain].kind = "method"
    /\ log[2].arg.items = <<NameEvaluate, NameTrain>>

\* C7: with a valid experiment that has train() returning "trained" and a
\* callable _private() returning "x", schedule "train" returns "trained", and
\* schedule "_private" fails with the lookup error without calling _private.
C7_PrivateMemberNotInvocable ==
    (/\ Terminated
     /\ ValidHandle
     /\ {NameTrain, NamePrivate} \subseteq DOMAIN Handle.attrs
     /\ Handle.attrs[NameTrain] = [kind |-> "method",
                                   returns |-> [kind |-> "str", s |-> "trained"]]
     /\ Handle.attrs[NamePrivate] = [kind |-> "method",
                                     returns |-> [kind |-> "str", s |-> "x"]])
    => /\ schedule = NameTrain =>
            /\ pc = "returned"
            /\ result = [kind |-> "str", s |-> "trained"]
       /\ schedule = NamePrivate =>
            /\ pc = "raised"
            /\ raised.kind = "ValueError"
            /\ raised.fmt = MsgNonExistent
            /\ CountOp("task") = 0

\* C8: on the two schedule-related failure paths (schedule absent from the
\* experiment; schedule bound to a non-callable attribute) exactly two log
\* lines are emitted, both before the error is raised: first the line naming
\* the failure and the schedule, then the line listing the valid tasks.
C8_TwoLogLinesBeforeRaise ==
    (/\ ValidHandle
     /\ \/ schedule \notin DOMAIN Handle.attrs
        \/ Handle.attrs[schedule].kind # "method")
    => /\ Len(log) <= 2
       /\ Len(log) < 2 => raised = NoException
       /\ Len(log) >= 1 =>
            log[1] = [level |-> "error",
                      fmt |-> IF schedule \notin DOMAIN Handle.attrs
                              THEN MsgNonExistent ELSE MsgNonCallable,
                      arg |-> [kind |-> "str", s |-> schedule]]
       /\ Len(log) = 2 =>
            /\ log[2].fmt = "Allowed values for this experiment are: %s"
            /\ log[2].arg.kind = "list"
       /\ Terminated =>
            /\ pc = "raised"
            /\ Len(log) = 2

C8_Witness ==
    /\ pc = "raised"
    /\ ValidHandle
    /\ schedule \in DOMAIN Handle.attrs
    /\ Handle.attrs[schedule].kind = "int"
    /\ Len(log) = 2
    /\ log[1].fmt = MsgNonCallable
    /\ log[1].arg.s = NameEstimator

\* The first of the six preconditions that the arguments violate, in the
\* order of the specification; 0 when all six hold.
FirstViolated ==
    IF output_dir = EmptyStr THEN 1
    ELSE IF schedule = EmptyStr THEN 2
    ELSE IF experiment_fn.kind # "function" THEN 3
    ELSE IF ~ValidHandle THEN 4
    ELSE IF schedule \notin DOMAIN Handle.attrs THEN 5
    ELSE IF Handle.attrs[schedule].kind # "method" THEN 6
    ELSE 0

\* Which precondition an exception reports: a function of its class and
\* message, so exceptions that report different preconditions differ.
Reports(exc) ==
    CASE exc.kind = "ValueError" /\ exc.fmt = MsgOutputDir     -> 1
      [] exc.kind = "ValueError" /\ exc.fmt = MsgSchedule      -> 2
      [] exc.kind = "TypeError"  /\ exc.fmt = MsgNotCallable   -> 3
      [] exc.kind = "TypeError"
           /\ exc.fmt \in {"not enough arguments for format string",
                           "not all arguments converted during string formatting"}
                                                               -> 3
      [] exc.kind = "TypeError"  /\ exc.fmt = MsgNotExperiment -> 4
      [] exc.kind = "ValueError" /\ exc.fmt = MsgNonExistent   -> 5
      [] exc.kind = "TypeError"  /\ exc.fmt = MsgNonCallable   -> 6
      [] OTHER                                                 -> 0

\* The operations run has performed when it ends at the k-th precondition
\* (k = 0: at the return), without the lookups of _valid_tasks.
StepsBefore(k) ==
    CASE k \in {1, 2, 3} -> << >>
      [] k = 4           -> <<"experiment_fn">>
      [] k = 5           -> <<"experiment_fn", "hasattr">>
      [] k = 6           -> <<"experiment_fn", "hasattr", "getattr">>
      [] OTHER           -> <<"experiment_fn", "hasattr", "getattr", "task">>

\* C10: a call of run is one linear pass: the six preconditions are checked
\* in order, the first one violated ends the call with the error of that
\* precondition (distinct from the others') and no later step runs; the
\* builder is called at most once and the member at most once, the member
\* only when all six preconditions hold.
C10_LinearValidationThenDispatch ==
    /\ CountOp("experiment_fn") <= 1
    /\ CountOp("task") <= 1
    /\ CountOp("hasattr") <= 1
    /\ CountOp("task") = 1 => FirstViolated = 0
    /\ pc = "raised" =>
         /\ FirstViolated # 0
         /\ Reports(raised) = FirstViolated
         /\ result = NoResult
         /\ LET k == Len(StepsBefore(FirstViolated))
            IN  /\ Len(calls) >= k
                /\ [i \in 1..k |-> calls[i].op] = StepsBefore(FirstViolated)
                /\ \A i \in (k + 1)..Len(calls) :
                      calls[i].op = "getattr" /\ FirstViolated \in {5, 6}
    /\ pc = "returned" =>
         /\ FirstViolated = 0
         /\ raised = NoException
         /\ [i \in 1..Len(calls) |-> calls[i].op] = StepsBefore(0)

C10_Witness ==
    /\ pc = "raised"
    /\ FirstViolated = 3
    /\ experiment_fn.kind = "tuple"
    /\ raised.fmt = "not enough arguments for format string"
    /\ calls = << >>

====
